---- MODULE Spec2Model ----
(***************************************************************************)
(* Model of scrape.py: collect_postings() and its nested helpers           *)
(* unwrap_url and extract_posting_urls.                                    *)
(*                                                                         *)
(* Python strings are modelled as sequences of one-character strings, so   *)
(* that slicing and splitting are computed, not assumed.  Two fixed texts  *)
(* that the program never takes apart (the URL template up to its slot and *)
(* the repr of a generator object) are single tokens.                      *)
(***************************************************************************)
EXTENDS Integers, Sequences, FiniteSets, TLC

VARIABLES
    server,   \* environment: listing-page offset -> response the site would give
    idx,      \* position of the range iterator of line 34
    fpns,     \* history: the offsets the range iterator has produced
    j,        \* the loop variable of line 36
    pc,       \* "for" | "print" | "done" | "failed"
    output,   \* lines written to standard output
    gets,     \* history: URLs passed to requests.get
    err,      \* the exception that ended the run or the generator, NoErr if none
    gen,      \* a generator object made by extract_posting_urls, when driven
    yielded,  \* the values that generator has yielded
    href,     \* argument of unwrap_url
    result,   \* value returned by unwrap_url
    upc       \* "idle" | "input" | "applied"

progVars == <<server, idx, fpns, j, pc, output, gets, err>>
genVars  == <<gen, yielded>>
fnVars   == <<href, result, upc>>
vars     == <<server, idx, fpns, j, pc, output, gets, err, gen, yielded, href, result, upc>>

-----------------------------------------------------------------------------
(* Bounds *)

\* longest reference string enumerated as an input of unwrap_url
MaxHrefLen == 4

-----------------------------------------------------------------------------
(* Program constants *)

total_jobs == 765
pg_interval == 20

\* range(0, 765, 20)
RangeStart == 0
RangeStop == 765
RangeStep == 20

\* the template 'https://www.rozee.pk/category/software-web-development-jobs/?fpn={}'
\* up to its substitution slot
base == <<"https://www.rozee.pk/category/software-web-development-jobs/?fpn=">>

-----------------------------------------------------------------------------
(* Strings *)

Chars == {".", "/", "?", "a"}

RECURSIVE SeqsOfLen(_)
SeqsOfLen(n) ==
    IF n = 0 THEN { <<>> }
    ELSE { Append(s, c) : s \in SeqsOfLen(n - 1), c \in Chars }

SeqsUpTo(n) == UNION { SeqsOfLen(k) : k \in 0..n }

\* './foo/bar?x=1&y=2'
HrefFooQuery ==
    <<".", "/", "f", "o", "o", "/", "b", "a", "r", "?", "x", "=", "1", "&", "y", "=", "2">>
\* './foo/bar'
HrefFoo == <<".", "/", "f", "o", "o", "/", "b", "a", "r">>
\* 'foo/bar'
FooBar == <<"f", "o", "o", "/", "b", "a", "r">>
\* './job/abc?ref=1'
HrefAbc == <<".", "/", "j", "o", "b", "/", "a", "b", "c", "?", "r", "e", "f", "=", "1">>
\* './job/def'
HrefDef == <<".", "/", "j", "o", "b", "/", "d", "e", "f">>
\* './'
HrefDotSlash == <<".", "/">>

\* s[n:] for n >= 0
SliceFrom(s, n) == SubSeq(s, n + 1, Len(s))

\* index of the first occurrence of character c in s, 0 if there is none
Find(s, c) ==
    IF \E i \in 1..Len(s) : s[i] = c
    THEN CHOOSE i \in 1..Len(s) : s[i] = c /\ \A k \in 1..(i - 1) : s[k] # c
    ELSE 0

\* s.split(c) for a one-character separator: the list of pieces
RECURSIVE Split(_, _)
Split(s, c) ==
    LET i == Find(s, c)
    IN  IF i = 0 THEN <<s>>
        ELSE <<SubSeq(s, 1, i - 1)>> \o Split(SubSeq(s, i + 1, Len(s)), c)

\* a faulty variant: the last piece of the split instead of the first
unwrap_url_last(h) ==
    LET parts == Split(SliceFrom(h, 2), "?") IN parts[Len(parts)]

\* href[2:].split('?')[0]
unwrap_url(h) == Split(SliceFrom(h, 2), "?")[1]

Digit(d) == <<"0", "1", "2", "3", "4", "5", "6", "7", "8", "9">>[d + 1]

\* the decimal text '{}'.format(n) of a natural number
RECURSIVE Dec(_)
Dec(n) == IF n < 10 THEN <<Digit(n)>> ELSE Dec(n \div 10) \o <<Digit(n % 10)>>

\* base.format(fpn)
Format(fpn) == base \o Dec(fpn)

-----------------------------------------------------------------------------
(* range(0, 765, 20) *)

\* a faulty variant: the number of whole pages, floor instead of ceiling
RangeLenFloor(start, stop, step) ==
    IF stop > start THEN (stop - start) \div step ELSE 0

\* len(range(start, stop, step)) for step > 0
RangeLen(start, stop, step) ==
    IF stop > start THEN (stop - start + step - 1) \div step ELSE 0

\* the i-th item (from 0) of range(start, stop, step)
RangeItem(start, step, i) == start + i * step

NumPages == RangeLen(RangeStart, RangeStop, RangeStep)

Offsets == { RangeItem(RangeStart, RangeStep, i) : i \in 0..(NumPages - 1) }

-----------------------------------------------------------------------------
(* The site: responses of requests.get and the h3.s-18 headings in them *)

\* a matched heading p: p.a is an anchor or None, p.a['href'] is present or not
Heading(h) == [anchor |-> TRUE, hasHref |-> TRUE, href |-> h]
NoAnchor   == [anchor |-> FALSE, hasHref |-> FALSE, href |-> <<>>]
NoHrefAttr == [anchor |-> TRUE, hasHref |-> FALSE, href |-> <<>>]

Response(st, body, ps) == [raises |-> FALSE, status |-> st, text |-> body, postings |-> ps]

PageEmpty     == Response(200, "empty", <<>>)
PageTwo       == Response(200, "two", <<Heading(HrefAbc), Heading(HrefDef)>>)
PageNoAnchor  == Response(200, "noanchor", <<Heading(HrefDef), NoAnchor>>)
PageNoHref    == Response(200, "nohref", <<Heading(HrefAbc), NoHrefAttr>>)
PageBareHref  == Response(200, "bare", <<Heading(HrefDotSlash)>>)
PageNotFound  == Response(404, "notfound", <<>>)
\* requests.get itself raises (DNS, connect, timeout, reset)
PageUnreachable == [raises |-> TRUE, status |-> 0, text |-> "", postings |-> <<>>]

PageResponses ==
    {PageEmpty, PageTwo, PageNoAnchor, PageNoHref, PageBareHref, PageNotFound, PageUnreachable}

\* every page answers d, except page at offset o which answers e
ServerWith(d, o, e) == [x \in Offsets |-> IF x = o THEN e ELSE d]

Servers ==
    { ServerWith(d, o, e) : d \in {PageEmpty, PageTwo}, o \in Offsets, e \in PageResponses }

UniformServers == { [x \in Offsets |-> d] : d \in PageResponses }

-----------------------------------------------------------------------------
(* Values and exceptions *)

NoErr == [type |-> "none", args |-> <<>>]
AssertionError(st, body) == [type |-> "AssertionError", args |-> <<st, body>>]
ConnectionError == [type |-> "ConnectionError", args |-> <<>>]
\* p.a is None: 'NoneType' object is not subscriptable
TypeError == [type |-> "TypeError", args |-> <<>>]
\* the anchor has no href attribute
KeyError == [type |-> "KeyError", args |-> <<"href">>]

None == [kind |-> "none", url |-> <<>>, val |-> <<>>]
GeneratorObject(url) == [kind |-> "generator", url |-> url, val |-> <<>>]

\* '<generator object collect_postings.<locals>.extract_posting_urls at 0x...>'
GeneratorRepr == <<"<generator object collect_postings.<locals>.extract_posting_urls>">>

\* str(v) as print(v) writes it: a generator object has only its default repr
Str(v) == IF v.kind = "generator" THEN GeneratorRepr ELSE v.val

-----------------------------------------------------------------------------
(* collect_postings(): the loop of lines 34-37 *)

\* a faulty variant: an ordinary function that fetches when called and asks again
\* when the answer is not 200
CallExtractEagerRetry(url, resp) ==
    [value |-> GeneratorObject(url),
     gets  |-> IF resp.raises \/ resp.status # 200 THEN <<url, url>> ELSE <<url>>,
     err   |-> IF resp.raises THEN ConnectionError
               ELSE IF resp.status # 200 THEN AssertionError(resp.status, resp.text)
               ELSE NoErr]

\* the call extract_posting_urls(url): the function holds a yield, so the call
\* runs none of its body and returns a fresh generator object
CallExtract(url, resp) ==
    [value |-> GeneratorObject(url), gets |-> <<>>, err |-> NoErr]

\* itertools.chain(*iterables): the items of each argument iterable, in order
RECURSIVE chain(_)
chain(iterables) ==
    IF iterables = <<>> THEN <<>> ELSE Head(iterables) \o chain(Tail(iterables))

Init ==
    /\ server \in Servers
    /\ idx = 0
    /\ fpns = <<>>
    /\ j = None
    /\ pc = "for"
    /\ output = <<>>
    /\ gets = <<>>
    /\ err = NoErr
    /\ gen = [state |-> "none", fpn |-> 0, pos |-> 0]
    /\ yielded = <<>>
    /\ href = <<>>
    /\ result = <<>>
    /\ upc = "idle"

\* the for statement asks jobs for its next item: the range gives the next fpn,
\* line 34 formats it, line 35 calls extract_posting_urls on it, and chain, whose
\* one argument is that generator expression, hands the item on as it is
NextJob ==
    /\ pc = "for"
    /\ idx < RangeLen(RangeStart, RangeStop, RangeStep)
    /\ LET fpn  == RangeItem(RangeStart, RangeStep, idx)
           url  == Format(fpn)
           call == CallExtract(url, server[fpn])
       IN  /\ idx' = idx + 1
           /\ fpns' = Append(fpns, fpn)
           /\ gets' = gets \o call.gets
           /\ err' = call.err
           /\ IF call.err = NoErr
              THEN /\ j' = chain(<< <<call.value>> >>)[1]
                   /\ pc' = "print"
              ELSE /\ j' = j
                   /\ pc' = "failed"
    /\ UNCHANGED <<server, output>>
    /\ UNCHANGED genVars
    /\ UNCHANGED fnVars

\* print(j)
PrintJob ==
    /\ pc = "print"
    /\ output' = Append(output, Str(j))
    /\ pc' = "for"
    /\ UNCHANGED <<server, idx, fpns, j, gets, err>>
    /\ UNCHANGED genVars
    /\ UNCHANGED fnVars

\* the range is exhausted: the loop ends and collect_postings returns
Exhausted ==
    /\ pc = "for"
    /\ idx >= RangeLen(RangeStart, RangeStop, RangeStep)
    /\ pc' = "done"
    /\ UNCHANGED <<server, idx, fpns, j, output, gets, err>>
    /\ UNCHANGED genVars
    /\ UNCHANGED fnVars

Next == NextJob \/ PrintJob \/ Exhausted

Spec == Init /\ [][Next]_vars

-----------------------------------------------------------------------------
(* extract_posting_urls(url): one generator object, driven with next() *)

InitExtract ==
    /\ server \in UniformServers
    /\ idx = 0
    /\ fpns = <<>>
    /\ j = None
    /\ pc = "driver"
    /\ output = <<>>
    /\ gets = <<>>
    /\ err = NoErr
    /\ \E o \in Offsets : gen = [state |-> "created", fpn |-> o, pos |-> 0]
    /\ yielded = <<>>
    /\ href = <<>>
    /\ result = <<>>
    /\ upc = "idle"

\* first next(): requests.get, the assert, the parse and find_all (lines 25-28),
\* then the generator expression of line 30 is made, nothing of it evaluated yet
GenFetch ==
    /\ gen.state = "created"
    /\ LET r == server[gen.fpn]
       IN  /\ gets' = Append(gets, Format(gen.fpn))
           /\ IF r.raises
              THEN /\ err' = ConnectionError
                   /\ gen' = [gen EXCEPT !.state = "closed"]
              ELSE IF r.status # 200
              THEN /\ err' = AssertionError(r.status, r.text)
                   /\ gen' = [gen EXCEPT !.state = "closed"]
              ELSE /\ err' = err
                   /\ gen' = [gen EXCEPT !.state = "running"]
    /\ UNCHANGED <<server, idx, fpns, j, pc, output, yielded>>
    /\ UNCHANGED fnVars

\* yield from urls: the next heading p has p.a['href'], its unwrap_url is yielded
GenYield ==
    /\ gen.state = "running"
    /\ gen.pos < Len(server[gen.fpn].postings)
    /\ LET p == server[gen.fpn].postings[gen.pos + 1]
       IN  /\ p.anchor /\ p.hasHref
           /\ yielded' = Append(yielded, unwrap_url(p.href))
    /\ gen' = [gen EXCEPT !.pos = gen.pos + 1]
    /\ UNCHANGED <<server, idx, fpns, j, pc, output, gets, err>>
    /\ UNCHANGED fnVars

\* the next heading has no anchor (p.a is None) or its anchor has no href:
\* p.a['href'] raises and the exception leaves the generator
GenRaise ==
    /\ gen.state = "running"
    /\ gen.pos < Len(server[gen.fpn].postings)
    /\ LET p == server[gen.fpn].postings[gen.pos + 1]
       IN  /\ ~(p.anchor /\ p.hasHref)
           /\ err' = IF p.anchor THEN KeyError ELSE TypeError
    /\ gen' = [gen EXCEPT !.state = "closed"]
    /\ UNCHANGED <<server, idx, fpns, j, pc, output, gets, yielded>>
    /\ UNCHANGED fnVars

\* the headings are used up: the generator returns (StopIteration)
GenReturn ==
    /\ gen.state = "running"
    /\ gen.pos >= Len(server[gen.fpn].postings)
    /\ gen' = [gen EXCEPT !.state = "closed"]
    /\ UNCHANGED <<server, idx, fpns, j, pc, output, gets, err, yielded>>
    /\ UNCHANGED fnVars

NextExtract == GenFetch \/ GenYield \/ GenRaise \/ GenReturn

SpecExtract == InitExtract /\ [][NextExtract]_vars

-----------------------------------------------------------------------------
(* unwrap_url(href) applied to a reference string *)

Hrefs == SeqsUpTo(MaxHrefLen) \cup {HrefFooQuery, HrefFoo, HrefAbc, HrefDef}

InitUnwrap ==
    /\ server \in {[x \in Offsets |-> PageEmpty]}
    /\ idx = 0
    /\ fpns = <<>>
    /\ j = None
    /\ pc = "driver"
    /\ output = <<>>
    /\ gets = <<>>
    /\ err = NoErr
    /\ gen = [state |-> "none", fpn |-> 0, pos |-> 0]
    /\ yielded = <<>>
    /\ href \in Hrefs
    /\ result = <<>>
    /\ upc = "input"

ApplyUnwrap ==
    /\ upc = "input"
    /\ result' = unwrap_url(href)
    /\ upc' = "applied"
    /\ UNCHANGED href
    /\ UNCHANGED progVars
    /\ UNCHANGED genVars

NextUnwrap == ApplyUnwrap

SpecUnwrap == InitUnwrap /\ [][NextUnwrap]_vars

-----------------------------------------------------------------------------
(* What the claims speak of *)

\* the offset of the k-th listing page, k from 1
Off(k) == 20 * (k - 1)

\* the URL of the k-th listing page
PageUrl(k) == Format(Off(k))

WellFormed(p) == p.anchor /\ p.hasHref

\* a response with status 200 whose matched headings all carry a reference
PageOK(r) == ~r.raises /\ r.status = 200 /\ \A i \in 1..Len(r.postings) : WellFormed(r.postings[i])

\* L_k: the normalized posting URLs of a well-formed page, in page order
Normalized(r) == [i \in 1..Len(r.postings) |-> unwrap_url(r.postings[i].href)]

\* L_1 ++ ... ++ L_n
RECURSIVE Expected(_)
Expected(n) == IF n = 0 THEN <<>> ELSE Expected(n - 1) \o Normalized(server[Off(n)])

AllOK == \A k \in 1..39 : PageOK(server[Off(k)])

\* page k is the first page that is not OK
EarlierOK(k) == \A i \in 1..(k - 1) : PageOK(server[Off(i)])

IsPrefix(s, t) == Len(s) <= Len(t) /\ \A i \in 1..Len(s) : s[i] = t[i]

Requested(u) == \E i \in 1..Len(gets) : gets[i] = u

-----------------------------------------------------------------------------
(* Claims *)

\* C1: when all 39 listing pages answer 200 with well-formed headings, the lines
\* printed by a completed run are exactly L1 ++ L2 ++ ... ++ L39.
C1_OutputIsConcatenation ==
    (pc = "done" /\ AllOK) => output = Expected(39)

\* C2: when a listing page answers with a status other than 200 (the pages before
\* it being fine), the run never completes normally, prints no line for that page
\* or a later one, takes up no later page, and its failure carries the status code
\* and the response body.
C2_AbortOnNon200 ==
    \A k \in 1..39 :
        LET r == server[Off(k)]
        IN  (~r.raises /\ r.status # 200 /\ EarlierOK(k)) =>
                /\ pc # "done"
                /\ Len(output) <= Len(Expected(k - 1))
                /\ \A i \in 1..Len(gets) : \E m \in 1..k : gets[i] = PageUrl(m)
                /\ (pc = "failed" => err = AssertionError(r.status, r.text))

\* C3: the offsets generated are exactly 0, 20, 40, ..., 760 in this order: 39
\* values (the ceiling of 765/20), strictly ascending, none repeated, none >= 765,
\* each giving a distinct listing-page URL.
C3_Offsets ==
    /\ Len(fpns) <= 39
    /\ \A i \in 1..Len(fpns) : fpns[i] = 20 * (i - 1) /\ fpns[i] < total_jobs
    /\ \A i, k \in 1..Len(fpns) :
          i < k => (fpns[i] < fpns[k] /\ Format(fpns[i]) # Format(fpns[k]))
    /\ pc = "done" =>
          /\ Len(fpns) = 39
          /\ 39 = (total_jobs + pg_interval - 1) \div pg_interval
          /\ fpns[39] = 760

C3_Witness == pc = "done" /\ Len(fpns) = 39 /\ fpns[1] = 0 /\ fpns[39] = 760

\* C4: in a completed run in which every page answers 200 with well-formed
\* headings, the GET requests issued are exactly the listing-page URLs of offsets
\* 0, 20, ..., 760, one per page, in ascending order.
C4_GetSequence ==
    (pc = "done" /\ AllOK) => gets = [k \in 1..39 |-> PageUrl(k)]

\* C5: for every href of length >= 2, unwrap_url(href) is href without its first
\* two characters, cut before the first '?' (whole when there is none); both
\* './foo/bar?x=1&y=2' and './foo/bar' give 'foo/bar'.
C5_UnwrapUrl ==
    (upc = "applied" /\ Len(href) >= 2) =>
        LET rest == [i \in 1..(Len(href) - 2) |-> href[i + 2]]
        IN  /\ Len(result) <= Len(rest)
            /\ \A i \in 1..Len(result) : result[i] = rest[i] /\ result[i] # "?"
            /\ Len(result) < Len(rest) => rest[Len(result) + 1] = "?"
            /\ href \in {HrefFooQuery, HrefFoo} => result = FooBar

C5_Witness == upc = "applied" /\ href = HrefFooQuery /\ result = FooBar

\* C6: when every page answers 200 with well-formed headings, the run ends
\* normally only after all 39 listing pages have been fetched.
C6_AllPagesFetchedAtExit ==
    AllOK => (pc = "done" => \A k \in 1..39 : Requested(PageUrl(k)))

C8_AbortOnMalformedHeading ==
    \A k \in 1..39 :
        LET r == server[Off(k)]
        IN  (~r.raises /\ r.status = 200 /\ ~PageOK(r) /\ EarlierOK(k)) =>
                /\ pc # "done"
                /\ \A i \in 1..Len(gets) : \E m \in 1..k : gets[i] = PageUrl(m)

\* C9: the GET for page m is issued only after every normalized URL of pages
\* 1..m-1 has been printed; with k the first failing page, the output only ever
\* holds URLs of pages 1..k-1 in order, and holds exactly L1 ++ ... ++ L(k-1) once
\* page k has been requested and when the run has ended.
C9_Interleaved ==
    \A k \in 1..39 :
        (~PageOK(server[Off(k)]) /\ EarlierOK(k)) =>
            /\ \A m \in 1..k : Requested(PageUrl(m)) => IsPrefix(Expected(m - 1), output)
            /\ IsPrefix(output, Expected(k - 1))
            /\ Requested(PageUrl(k)) => output = Expected(k - 1)
            /\ pc \in {"done", "failed"} => output = Expected(k - 1)

\* C10: in every run, whatever the responses, each listing-page URL is requested
\* at most once, no GET goes to a URL outside the 39 listing-page URLs, the number
\* of GETs never exceeds 39, and no GET is issued after a failure.
C10_GetsBounded ==
    /\ Len(gets) <= 39
    /\ \A i \in 1..Len(gets) : \E k \in 1..39 : gets[i] = PageUrl(k)
    /\ \A i, k \in 1..Len(gets) : i # k => gets[i] # gets[k]

C10_AtMostOnce ==
    /\ []C10_GetsBounded
    /\ [][pc = "failed" => gets' = gets]_vars

C10_Witness ==
    /\ pc = "done"
    /\ idx = 39
    /\ \E k \in 1..39 : ~PageOK(server[Off(k)])
    /\ C10_GetsBounded

====
